---- MODULE Spec2Model ----
(***************************************************************************)
(* Model of src/query/extractor.rs: Extractor::new, extract_from_file,     *)
(* extract_from_text, and the Display / Serialize renderings of            *)
(* ExtractedFile and ExtractedMatch.                                       *)
(*                                                                         *)
(* The parser, the syntax tree and the query cursor belong to tree_sitter. *)
(* They are modelled at the interface the code uses: set_language fails    *)
(* for a grammar of an incompatible ABI version, parse returns no tree     *)
(* only when the caller gave the parser a timeout or cancellation flag,    *)
(* and the query cursor yields an arbitrary sequence of matches whose      *)
(* captures carry an index into the capture-name table and a node of the   *)
(* tree.                                                                   *)
(***************************************************************************)
EXTENDS Integers, Sequences, FiniteSets, TLC

VARIABLES extractor, parser, call, result, rendered, remembered

vars == <<extractor, parser, call, result, rendered, remembered>>

(***************************************************************************)
(* Bounds of the model.                                                    *)
(***************************************************************************)
MaxCaptureNames == 2
MaxSourceLen == 2
MaxCaptures == 2

(***************************************************************************)
(* Input alphabets.                                                        *)
(***************************************************************************)
\* '\n', 'a', and the two bytes of U+00E9: 0xC3 alone or 0xA9 alone is not UTF-8.
Bytes == {10, 97, 195, 169}

\* Capture names as character sequences: "_h", "v_", "id".
CaptureNameSet == { <<"_", "h">>, <<"v", "_">> }

SeqsUpTo(S, n) == UNION { [1..k -> S] : k \in 0..n }

Sources == SeqsUpTo(Bytes, MaxSourceLen)

\* A path is its string form, or a path that is not valid Unicode.
Paths == { [utf8 |-> TRUE, str |-> "src/main.rs"], [utf8 |-> FALSE, str |-> ""] }

NoPath == <<>>
SomePath(p) == <<p>>
OptionalPaths == {NoPath} \cup { SomePath(p) : p \in Paths }

(***************************************************************************)
(* crate::query::Language: a closed set of tags, each with a grammar       *)
(* handle and a display name.                                              *)
(***************************************************************************)
Languages == {"Rust", "Elm", "Legacy"}

\* Language::language(): the tree_sitter grammar handle.
TsLanguage(language) ==
    [name |-> language, abi_compatible |-> language # "Legacy"]

\* Language::to_string(): the display tag.
LanguageToString(language) ==
    CASE language = "Rust" -> "rust"
      [] language = "Elm" -> "elm"
      [] OTHER -> "legacy"

(***************************************************************************)
(* str::starts_with('_')                                                   *)
(***************************************************************************)
StartsWithUnderscore(name) == Len(name) > 0 /\ name[1] = "_"

(***************************************************************************)
(* Extractor::new                                                          *)
(***************************************************************************)
Queries == [capture_names : SeqsUpTo(CaptureNameSet, MaxCaptureNames)]

\* capture indices are 0-based: captures[i] is the (i+1)-th element.
CaptureAt(captures, i) == captures[i + 1]

\* a classifier that looks for the underscore anywhere in the name
new_contains(language, query) ==
    LET captures == query.capture_names
        ignores == { i \in 0..(Len(captures) - 1) :
                        \E k \in 1..Len(CaptureAt(captures, i)) :
                            CaptureAt(captures, i)[k] = "_" }
    IN  [ ts_language |-> TsLanguage(language),
          language |-> language,
          query |-> query,
          captures |-> captures,
          ignores |-> ignores ]

new(language, query) ==
    LET captures == query.capture_names
        ignores == { i \in 0..(Len(captures) - 1) :
                        StartsWithUnderscore(CaptureAt(captures, i)) }
    IN  [ ts_language |-> TsLanguage(language),
          language |-> language,
          query |-> query,
          captures |-> captures,
          ignores |-> ignores ]

(***************************************************************************)
(* std::str::from_utf8, as Node::utf8_text applies it to a byte span: the  *)
(* decoded characters (code points), or failure.                           *)
(***************************************************************************)
Utf8Width(b) ==
    IF b < 128 THEN 1
    ELSE IF b >= 194 /\ b <= 223 THEN 2
    ELSE IF b >= 224 /\ b <= 239 THEN 3
    ELSE IF b >= 240 /\ b <= 244 THEN 4
    ELSE 0

IsContinuation(b) == b >= 128 /\ b <= 191

\* The second byte of a sequence is further restricted for some lead bytes.
SecondByteOk(b1, b2) ==
    CASE b1 = 224 -> b2 >= 160 /\ b2 <= 191
      [] b1 = 237 -> b2 >= 128 /\ b2 <= 159
      [] b1 = 240 -> b2 >= 144 /\ b2 <= 191
      [] b1 = 244 -> b2 >= 128 /\ b2 <= 143
      [] OTHER -> IsContinuation(b2)

Utf8CodePoint(bs, n) ==
    CASE n = 1 -> bs[1]
      [] n = 2 -> (bs[1] - 192) * 64 + (bs[2] - 128)
      [] n = 3 -> (bs[1] - 224) * 4096 + (bs[2] - 128) * 64 + (bs[3] - 128)
      [] OTHER -> (bs[1] - 240) * 262144 + (bs[2] - 128) * 4096
                    + (bs[3] - 128) * 64 + (bs[4] - 128)

Utf8Failure == [ok |-> FALSE, chars |-> <<>>]

RECURSIVE from_utf8(_)
from_utf8(bs) ==
    IF bs = <<>> THEN [ok |-> TRUE, chars |-> <<>>]
    ELSE LET n == Utf8Width(bs[1])
         IN  IF n = 0 \/ Len(bs) < n THEN Utf8Failure
             ELSE IF n >= 2 /\ ~SecondByteOk(bs[1], bs[2]) THEN Utf8Failure
             ELSE IF \E k \in 3..n : ~IsContinuation(bs[k]) THEN Utf8Failure
             ELSE LET rest == from_utf8(SubSeq(bs, n + 1, Len(bs)))
                  IN  IF rest.ok
                      THEN [ok |-> TRUE,
                            chars |-> <<Utf8CodePoint(bs, n)>> \o rest.chars]
                      ELSE Utf8Failure

(***************************************************************************)
(* tree_sitter::Point of a byte offset: 0-based row and byte column.       *)
(***************************************************************************)
PointAt(source, offset) ==
    LET newlines == { i \in 1..offset : source[i] = 10 }
        line_start == IF newlines = {} THEN 0
                      ELSE CHOOSE i \in newlines : \A j \in newlines : j <= i
    IN  [row |-> Cardinality(newlines), column |-> offset - line_start]

(***************************************************************************)
(* tree_sitter::Parser and the tree it produces.  The tree is a root node  *)
(* spanning the source with one child node per byte; the node kinds are    *)
(* the grammar's.                                                          *)
(***************************************************************************)
NoLanguage == "none"

Parsers == [language : {NoLanguage} \cup { l \in Languages : TsLanguage(l).abi_compatible },
            timeout : BOOLEAN]

RootKind(grammar) == IF grammar = "Elm" THEN "file" ELSE "source_file"
LeafKind(grammar) == IF grammar = "Elm" THEN "lower_case_identifier" ELSE "identifier"

MakeNode(kind, source, start_byte, end_byte) ==
    [ kind |-> kind,
      start_byte |-> start_byte,
      end_byte |-> end_byte,
      start_position |-> PointAt(source, start_byte),
      end_position |-> PointAt(source, end_byte) ]

Tree(grammar, source) ==
    [ language |-> grammar,
      root_node |-> MakeNode(RootKind(grammar), source, 0, Len(source)),
      children |-> { MakeNode(LeafKind(grammar), source, i - 1, i) : i \in 1..Len(source) } ]

NodesOf(tree) == {tree.root_node} \cup tree.children

\* Parser::set_language: rejects a grammar of an incompatible ABI version
\* and leaves the parser as it was.
set_language(p, ts_language) ==
    IF ts_language.abi_compatible
    THEN [ok |-> TRUE, parser |-> [p EXCEPT !.language = ts_language.name]]
    ELSE [ok |-> FALSE, parser |-> p]

\* Parser::parse(source, None): Some(tree), or None when no language is set
\* or when the caller's timeout / cancellation flag ends the parse early.
parse(p, source) ==
    IF p.language = NoLanguage THEN { <<>> }
    ELSE { <<Tree(p.language, source)>> } \cup (IF p.timeout THEN { <<>> } ELSE {})

(***************************************************************************)
(* QueryCursor::matches: a sequence of matches, each a sequence of         *)
(* captures (index into the capture names, node of the tree).              *)
(***************************************************************************)
CapturesOf(query, tree) ==
    [index : 0..(Len(query.capture_names) - 1), node : NodesOf(tree)]

RECURSIVE Sum(_)
Sum(lengths) == IF lengths = <<>> THEN 0 ELSE Head(lengths) + Sum(Tail(lengths))

\* The number of captures of each match; a match holds at least one.
MatchShapes ==
    { lengths \in SeqsUpTo(1..MaxCaptures, MaxCaptures) : Sum(lengths) <= MaxCaptures }

RECURSIVE Split(_, _)
Split(captures, lengths) ==
    IF lengths = <<>> THEN <<>>
    ELSE << SubSeq(captures, 1, Head(lengths)) >>
            \o Split(SubSeq(captures, Head(lengths) + 1, Len(captures)), Tail(lengths))

QueryMatches(query, tree) ==
    UNION { { Split(captures, lengths) :
                captures \in [1..Sum(lengths) -> CapturesOf(query, tree)] } :
            lengths \in MatchShapes }

(***************************************************************************)
(* The iterator pipeline of extract_from_text.                             *)
(***************************************************************************)
\* a flattening that emits the last match first
RECURSIVE flat_map_rev(_)
flat_map_rev(query_matches) ==
    IF query_matches = <<>> THEN <<>>
    ELSE flat_map_rev(Tail(query_matches)) \o Head(query_matches)

\* .flat_map(|query_match| query_match.captures)
RECURSIVE flat_map(_)
flat_map(query_matches) ==
    IF query_matches = <<>> THEN <<>>
    ELSE Head(query_matches) \o flat_map(Tail(query_matches))

\* a filter that lost its negation
NotIgnored_inverted(ex, capture) == capture.index \in ex.ignores

\* .filter(|capture| !self.ignores.contains(&(capture.index as usize)))
NotIgnored(ex, capture) == capture.index \notin ex.ignores

filter(ex, captures) == SelectSeq(captures, LAMBDA c : NotIgnored(ex, c))

\* node.utf8_text(source)
utf8_text(node, source) ==
    from_utf8(SubSeq(source, node.start_byte + 1, node.end_byte))

\* a projection that names every match after the first capture
ToExtractedMatch_first_name(ex, capture, source) ==
    LET name == CaptureAt(ex.captures, 0)
        node == capture.node
        text == utf8_text(node, source)
    IN  IF text.ok
        THEN [ ok |-> TRUE,
               value |-> [ kind |-> node.kind,
                           name |-> name,
                           text |-> text.chars,
                           start |-> node.start_position,
                           end |-> node.end_position ] ]
        ELSE [ ok |-> FALSE, context |-> "could not extract text from capture" ]

\* the closure of .map(...): Ok(ExtractedMatch) or the decoding error.
ToExtractedMatch(ex, capture, source) ==
    LET name == CaptureAt(ex.captures, capture.index)
        node == capture.node
        text == utf8_text(node, source)
    IN  IF text.ok
        THEN [ ok |-> TRUE,
               value |-> [ kind |-> node.kind,
                           name |-> name,
                           text |-> text.chars,
                           start |-> node.start_position,
                           end |-> node.end_position ] ]
        ELSE [ ok |-> FALSE, context |-> "could not extract text from capture" ]

map(ex, captures, source) ==
    [ i \in 1..Len(captures) |-> ToExtractedMatch(ex, captures[i], source) ]

\* a collect that keeps the values and drops the errors
collect_lossy(results) ==
    [ ok |-> TRUE,
      value |-> LET kept == SelectSeq(results, LAMBDA r : r.ok)
                IN  [ i \in 1..Len(kept) |-> kept[i].value ] ]

\* .collect::<Result<Vec<ExtractedMatch>>>(): the first error, else all values.
collect(results) ==
    IF \E i \in 1..Len(results) : ~results[i].ok
    THEN LET first == CHOOSE i \in 1..Len(results) :
                          ~results[i].ok /\ \A j \in 1..(i - 1) : results[j].ok
         IN  [ ok |-> FALSE, context |-> results[first].context ]
    ELSE [ ok |-> TRUE, value |-> [ i \in 1..Len(results) |-> results[i].value ] ]

\* a pipeline that decodes every capture before it filters
ExtractedMatches_decode_first(ex, query_matches, source) ==
    LET all == flat_map(query_matches)
        decoded == map(ex, all, source)
        kept == { i \in 1..Len(all) : NotIgnored(ex, all[i]) }
        survivors == SelectSeq([ i \in 1..Len(all) |-> [at |-> i, r |-> decoded[i]] ],
                               LAMBDA x : x.at \in kept)
    IN  IF \E i \in 1..Len(decoded) : ~decoded[i].ok
        THEN [ ok |-> FALSE, context |-> "could not extract text from capture" ]
        ELSE [ ok |-> TRUE,
               value |-> [ i \in 1..Len(survivors) |-> survivors[i].r.value ] ]

\* flatten, filter, map, collect, in the order of the source.
ExtractedMatches(ex, query_matches, source) ==
    collect(map(ex, filter(ex, flat_map(query_matches)), source))

(***************************************************************************)
(* Result<Option<ExtractedFile>>                                           *)
(***************************************************************************)
Err(context) == [tag |-> "Err", context |-> context]
OkNone == [tag |-> "None"]
OkSome(file) == [tag |-> "Some", value |-> file]
NoResult == [tag |-> "Idle"]

\* a tail without the is_empty test
Finish_always_some(ex, path, extracted) ==
    IF ~extracted.ok THEN Err(extracted.context)
    ELSE OkSome([ file |-> path,
                  file_type |-> LanguageToString(ex.language),
                  matches |-> extracted.value ])

\* the tail of extract_from_text: `?` on the collected matches, then the
\* is_empty test.
Finish(ex, path, extracted) ==
    IF ~extracted.ok THEN Err(extracted.context)
    ELSE IF extracted.value = <<>> THEN OkNone
    ELSE OkSome([ file |-> path,
                  file_type |-> LanguageToString(ex.language),
                  matches |-> extracted.value ])

\* a configuration step that keeps the grammar a reused parser already has
Configure_once(ex, p) ==
    IF p.language # NoLanguage /\ ex.ts_language.abi_compatible
    THEN [ok |-> TRUE, parser |-> p]
    ELSE set_language(p, ex.ts_language)

\* parser.set_language(self.ts_language)
Configure(ex, p) == set_language(p, ex.ts_language)

(***************************************************************************)
(* The record of the call in progress / last returned.                     *)
(***************************************************************************)
IdleCall ==
    [ op |-> "idle", path |-> NoPath, source |-> <<>>, read_ok |-> FALSE,
      configured |-> FALSE, parsed |-> FALSE, grammar |-> NoLanguage,
      query_matches |-> <<>> ]

NotRendered == [tag |-> "none"]

\* The query engine is a function of grammar, query and source: it repeats
\* the answer it gave to the remembered call.
matches(query, tree, source) ==
    IF \E k \in 1..Len(remembered) :
          /\ remembered[k].call.parsed
          /\ remembered[k].call.grammar = tree.language
          /\ remembered[k].call.source = source
    THEN { remembered[1].call.query_matches }
    ELSE QueryMatches(query, tree)

\* While a call is remembered, the model follows calls on the same input.
Followed(path, source) ==
    \A k \in 1..Len(remembered) :
        remembered[k].call.path = path /\ remembered[k].call.source = source

\* extract_from_text(path, source, parser)
extract_from_text(op, path, source) ==
    LET configured == Configure(extractor, parser)
        base == [IdleCall EXCEPT !.op = op, !.path = path, !.source = source,
                                 !.read_ok = TRUE]
    IN  IF ~configured.ok
        THEN /\ parser' = configured.parser
             /\ call' = base
             /\ result' = Err("could not set language")
        ELSE /\ parser' = configured.parser
             /\ \E tree \in parse(configured.parser, source) :
                  IF tree = <<>>
                  THEN /\ call' = [base EXCEPT !.configured = TRUE]
                       /\ result' = Err("could not parse to a tree")
                  ELSE \E query_matches \in matches(extractor.query, tree[1], source) :
                         /\ call' = [base EXCEPT !.configured = TRUE, !.parsed = TRUE,
                                                 !.grammar = tree[1].language,
                                                 !.query_matches = query_matches]
                         /\ result' = Finish(extractor, path,
                                         ExtractedMatches(extractor, query_matches, source))

ExtractFromText(path, source) ==
    /\ call.op = "idle"
    /\ Followed(path, source)
    /\ extract_from_text("extract_from_text", path, source)
    /\ UNCHANGED <<extractor, rendered, remembered>>

\* fs::read(path): the bytes of the file, or an I/O error.
ReadOutcomes == { <<>> } \cup { <<s>> : s \in Sources }

ExtractFromFile(path) ==
    /\ call.op = "idle"
    /\ \E read \in ReadOutcomes :
         IF read = <<>>
         THEN /\ call' = [IdleCall EXCEPT !.op = "extract_from_file",
                                          !.path = SomePath(path)]
              /\ result' = Err("could not read file")
              /\ UNCHANGED parser
         ELSE /\ Followed(SomePath(path), read[1])
              /\ extract_from_text("extract_from_file", SomePath(path), read[1])
    /\ UNCHANGED <<extractor, rendered, remembered>>

(***************************************************************************)
(* impl Display for ExtractedFile: one line per match, each line the       *)
(* sequence of the arguments of "{}:{}:{}:{}:{}".                          *)
(***************************************************************************)
DisplayFilename(file) ==
    IF file = NoPath THEN "NO FILE"
    ELSE IF file[1].utf8 THEN file[1].str
    ELSE "NON-UTF8 FILENAME"

DisplayLine(filename, extraction) ==
    << [str |-> filename],
       [num |-> extraction.start.row + 1],
       [num |-> extraction.start.column + 1],
       [name |-> extraction.name],
       [text |-> extraction.text] >>

fmt(file) ==
    LET filename == DisplayFilename(file.file)
    IN  [ i \in 1..Len(file.matches) |-> DisplayLine(filename, file.matches[i]) ]

(***************************************************************************)
(* Serialize: a struct is the sequence of its (key, value) fields in the   *)
(* order serde emits them.                                                 *)
(***************************************************************************)
Field(key, value) == [key |-> key, value |-> value]

\* a point serializer that emits the internal coordinates
serialize_point_raw(point) ==
    << Field("row", point.row), Field("column", point.column) >>

serialize_point(point) ==
    << Field("row", point.row + 1), Field("column", point.column + 1) >>

\* a match serializer that skips the kind field
SerializeMatch_skip_kind(m) ==
    << Field("name", m.name),
       Field("text", m.text),
       Field("start", serialize_point(m.start)),
       Field("end", serialize_point(m.end)) >>

\* #[derive(Serialize)] on ExtractedMatch: every field of the struct, start
\* and end through serialize_point.
SerializeMatch(m) ==
    << Field("kind", m.kind),
       Field("name", m.name),
       Field("text", m.text),
       Field("start", serialize_point(m.start)),
       Field("end", serialize_point(m.end)) >>

\* #[derive(Serialize)] on ExtractedFile.  serde renders Option<PathBuf> as
\* null or a string and fails on a path that is not valid Unicode.
SerializeFile(file) ==
    IF file.file # NoPath /\ ~file.file[1].utf8
    THEN [ ok |-> FALSE, value |-> <<>> ]
    ELSE [ ok |-> TRUE,
           value |-> << Field("file", IF file.file = NoPath THEN <<>>
                                       ELSE <<file.file[1].str>>),
                        Field("file_type", file.file_type),
                        Field("matches", [ i \in 1..Len(file.matches) |->
                                              SerializeMatch(file.matches[i]) ]) >> ]

Display ==
    /\ result.tag = "Some"
    /\ rendered = NotRendered
    /\ rendered' = [tag |-> "display", lines |-> fmt(result.value)]
    /\ UNCHANGED <<extractor, parser, call, result, remembered>>

Serialize ==
    /\ result.tag = "Some"
    /\ rendered = NotRendered
    /\ rendered' = [tag |-> "serialize", out |-> SerializeFile(result.value)]
    /\ UNCHANGED <<extractor, parser, call, result, remembered>>

(***************************************************************************)
(* The caller.                                                             *)
(***************************************************************************)
\* The caller drops the result of the last call.
Discard ==
    /\ call.op # "idle"
    /\ call' = IdleCall
    /\ result' = NoResult
    /\ rendered' = NotRendered
    /\ UNCHANGED <<extractor, parser, remembered>>

\* The caller hands over another parser resource: a fresh one, one that an
\* Extractor of another language configured, one with a timeout set.
SupplyParser(p) ==
    /\ call.op = "idle"
    /\ p # parser
    /\ parser' = p
    /\ UNCHANGED <<extractor, call, result, rendered, remembered>>

\* History: the caller keeps the last extract_from_text call and its result
\* to compare later calls with.
Remember ==
    /\ remembered = <<>>
    /\ call.op = "extract_from_text"
    /\ remembered' = << [call |-> call, result |-> result] >>
    /\ call' = IdleCall
    /\ result' = NoResult
    /\ rendered' = NotRendered
    /\ UNCHANGED <<extractor, parser>>

(***************************************************************************)
(* Specifications.                                                         *)
(***************************************************************************)
Init ==
    /\ \E language \in Languages, query \in Queries :
          extractor = new(language, query)
    /\ parser \in Parsers
    /\ call = IdleCall
    /\ result = NoResult
    /\ rendered = NotRendered
    /\ remembered = <<>>

Next ==
    \/ \E path \in OptionalPaths, source \in Sources : ExtractFromText(path, source)
    \/ \E path \in Paths : ExtractFromFile(path)
    \/ Display
    \/ Serialize
    \/ Discard
    \/ \E p \in Parsers : SupplyParser(p)

Spec == Init /\ [][Next]_vars

NextDet ==
    \/ \E path \in OptionalPaths, source \in Sources : ExtractFromText(path, source)
    \/ Discard
    \/ \E p \in Parsers : SupplyParser(p)
    \/ Remember

SpecDet == Init /\ [][NextDet]_vars

(***************************************************************************)
(* Vocabulary of the properties, stated on the recorded call and written   *)
(* independently of the pipeline operators above.                          *)
(***************************************************************************)
Returned == call.op # "idle"

UnderscoreFirst(name) == name # <<>> /\ Head(name) = "_"

\* The captures the query engine produced, match by match.
RECURSIVE Produced(_)
Produced(query_matches) ==
    IF query_matches = <<>> THEN <<>>
    ELSE Produced(SubSeq(query_matches, 1, Len(query_matches) - 1))
            \o query_matches[Len(query_matches)]

NameOf(capture) == extractor.captures[capture.index + 1]

Hidden(capture) == UnderscoreFirst(NameOf(capture))

SpanOf(capture) ==
    SubSeq(call.source, capture.node.start_byte + 1, capture.node.end_byte)

Decodable(capture) == from_utf8(SpanOf(capture)).ok

\* The produced captures without the hidden ones, in the order produced.
Surviving(query_matches) ==
    SelectSeq(Produced(query_matches), LAMBDA c : ~Hidden(c))

\* The match record a surviving capture stands for.
RecordOf(capture) ==
    [ kind |-> capture.node.kind,
      name |-> NameOf(capture),
      text |-> from_utf8(SpanOf(capture)).chars,
      start |-> PointAt(call.source, capture.node.start_byte),
      end |-> PointAt(call.source, capture.node.end_byte) ]

RecordsOf(captures) == [ k \in 1..Len(captures) |-> RecordOf(captures[k]) ]

\* The outcome of a call whose surviving captures all decode.
OutcomeOf(captures) ==
    IF captures = <<>> THEN OkNone
    ELSE OkSome([ file |-> call.path,
                  file_type |-> LanguageToString(extractor.language),
                  matches |-> RecordsOf(captures) ])

MatchesOf(r) == IF r.tag = "Some" THEN r.value.matches ELSE <<>>

AllHidden == \A i \in 1..Len(extractor.captures) : UnderscoreFirst(extractor.captures[i])

\* C1: a returned call is an error, None or Some; Some carries a non-empty
\* match sequence and is returned only when a capture survived; None is
\* returned exactly when configuration and parsing succeeded and no capture
\* survived; a failure (file read, configuration, parse, decode) is an
\* error, and an error is always one of these failures.
C1_Outcome ==
    Returned =>
        LET surviving == Surviving(call.query_matches)
            failure == \/ ~call.read_ok
                       \/ ~call.configured
                       \/ ~call.parsed
                       \/ \E k \in 1..Len(surviving) : ~Decodable(surviving[k])
        IN  /\ result.tag \in {"Err", "None", "Some"}
            /\ result.tag = "Some" =>
                  /\ result.value.matches # <<>>
                  /\ call.parsed
                  /\ surviving # <<>>
            /\ result.tag = "None" <=> (call.parsed /\ surviving = <<>>)
            /\ result.tag = "Err" <=> failure

\* An empty input whose only captures are hidden ones returns None.
C1_Witness ==
    /\ call.op = "extract_from_text"
    /\ call.source = <<>>
    /\ call.parsed
    /\ Produced(call.query_matches) # <<>>
    /\ result.tag = "None"

\* C2 as stated: the structured rendering of a match has exactly the fields
\* name, text, start and end, without the node kind.
C2_WithoutKind ==
    (rendered.tag = "serialize" /\ rendered.out.ok) =>
        LET records == rendered.out.value[3].value
        IN  \A k \in 1..Len(records) :
               { records[k][i].key : i \in 1..Len(records[k]) }
                   = {"name", "text", "start", "end"}

\* C2 amended: the structured rendering of a match has the five fields kind,
\* name, text, start, end, in this order; kind carries the node kind.
C2_WithKind ==
    (rendered.tag = "serialize" /\ rendered.out.ok) =>
        LET records == rendered.out.value[3].value
            ms == result.value.matches
        IN  /\ Len(records) = Len(ms)
            /\ \A k \in 1..Len(records) :
                  /\ [ i \in 1..Len(records[k]) |-> records[k][i].key ]
                        = <<"kind", "name", "text", "start", "end">>
                  /\ records[k][1].value = ms[k].kind
                  /\ records[k][2].value = ms[k].name
                  /\ records[k][3].value = ms[k].text

C2_Witness ==
    /\ rendered.tag = "serialize"
    /\ rendered.out.ok
    /\ Len(result.value.matches) = 2
    /\ result.value.matches[1].kind # result.value.matches[2].kind

\* C3 as stated: a query whose capture names are all underscore-prefixed
\* makes every extract_from_text call return None.
C3_AlwaysNone ==
    (call.op = "extract_from_text" /\ AllHidden) => result.tag = "None"

\* C3 amended: with such a query extract_from_text never returns Some and
\* never a decoding error; it returns None whenever configuration and
\* parsing succeed, and otherwise the configuration or parse error.
C3_NeverSome ==
    (call.op = "extract_from_text" /\ AllHidden) =>
        /\ result.tag # "Some"
        /\ call.parsed => result.tag = "None"
        /\ ~call.parsed =>
              /\ result.tag = "Err"
              /\ result.context \in {"could not set language", "could not parse to a tree"}

\* Two hidden captures were produced, one over bytes that do not decode.
C3_Witness ==
    /\ call.op = "extract_from_text"
    /\ AllHidden
    /\ call.parsed
    /\ Len(Produced(call.query_matches)) = 2
    /\ \E k \in 1..2 : ~Decodable(Produced(call.query_matches)[k])
    /\ result.tag = "None"

\* C4: every returned match is named captures[i] for the index i of the
\* capture that produced it, i is not in the ignored set, and no returned
\* name starts with an underscore.
C4_Names ==
    result.tag = "Some" =>
        LET produced == Produced(call.query_matches)
            kept == SelectSeq(produced, LAMBDA c : c.index \notin extractor.ignores)
            ms == result.value.matches
        IN  /\ Len(ms) = Len(kept)
            /\ \A k \in 1..Len(ms) :
                  /\ kept[k].index \in 0..(Len(extractor.captures) - 1)
                  /\ kept[k].index \notin extractor.ignores
                  /\ ms[k].name = extractor.captures[kept[k].index + 1]
                  /\ ~UnderscoreFirst(ms[k].name)

\* A hidden capture and a visible one were produced; only the visible one
\* is returned.
C4_Witness ==
    /\ result.tag = "Some"
    /\ extractor.captures = << <<"_", "h">>, <<"v", "_">> >>
    /\ Len(Produced(call.query_matches)) = 2
    /\ Produced(call.query_matches)[1].index = 0
    /\ Produced(call.query_matches)[2].index = 1
    /\ Len(result.value.matches) = 1
    /\ result.value.matches[1].name = <<"v", "_">>

\* C5: when a surviving capture spans bytes that are not UTF-8 the call
\* returns the decoding error: no file, no partial match list.
C5_DecodeFatal ==
    (call.parsed /\ \E k \in 1..Len(Surviving(call.query_matches)) :
                        ~Decodable(Surviving(call.query_matches)[k]))
        => /\ result.tag = "Err"
           /\ result.context = "could not extract text from capture"

\* A capture that decodes is followed by one that does not.
C5_Witness ==
    /\ call.parsed
    /\ Len(Surviving(call.query_matches)) = 2
    /\ Decodable(Surviving(call.query_matches)[1])
    /\ ~Decodable(Surviving(call.query_matches)[2])
    /\ result.tag = "Err"

\* C6: the returned matches are the produced captures, match by match and
\* capture by capture, without the hidden ones: same order, same number,
\* each with the kind, name, text and positions of its capture.
C6_Order ==
    (call.parsed /\ result.tag # "Err") =>
        MatchesOf(result) = RecordsOf(Surviving(call.query_matches))

\* One pattern match with two captures, the whole source and then a node
\* inside it, gives exactly these two matches in this order.
C6_Witness ==
    /\ result.tag = "Some"
    /\ Len(call.query_matches) = 1
    /\ Len(call.query_matches[1]) = 2
    /\ Len(call.source) = 2
    /\ call.query_matches[1][1].node.end_byte - call.query_matches[1][1].node.start_byte = 2
    /\ call.query_matches[1][2].node.end_byte - call.query_matches[1][2].node.start_byte = 1
    /\ call.query_matches[1][1].index # call.query_matches[1][2].index
    /\ Len(result.value.matches) = 2
    /\ result.value.matches[1].text = <<97, 97>>
    /\ result.value.matches[2].text = <<97>>

\* The numbers a Display line shows, in the order shown.
NumbersOf(line) ==
    LET shown == SelectSeq(line, LAMBDA f : "num" \in DOMAIN f)
    IN  [ i \in 1..Len(shown) |-> shown[i].num ]

\* The internal points of the returned matches are the 0-based points of
\* the captured nodes.
PointsKept ==
    result.tag = "Some" =>
        LET kept == Surviving(call.query_matches)
            ms == result.value.matches
        IN  /\ Len(ms) = Len(kept)
            /\ \A k \in 1..Len(ms) :
                  /\ ms[k].start = PointAt(call.source, kept[k].node.start_byte)
                  /\ ms[k].end = PointAt(call.source, kept[k].node.end_byte)

\* The structured rendering shows start and end, each coordinate plus one.
SerializedPoints ==
    (rendered.tag = "serialize" /\ rendered.out.ok) =>
        LET records == rendered.out.value[3].value
            ms == result.value.matches
        IN  /\ Len(records) = Len(ms)
            /\ \A k \in 1..Len(ms) :
                  \A i \in 1..Len(records[k]) :
                     /\ records[k][i].key = "start" =>
                           records[k][i].value =
                              << [key |-> "row", value |-> ms[k].start.row + 1],
                                 [key |-> "column", value |-> ms[k].start.column + 1] >>
                     /\ records[k][i].key = "end" =>
                           records[k][i].value =
                              << [key |-> "row", value |-> ms[k].end.row + 1],
                                 [key |-> "column", value |-> ms[k].end.column + 1] >>
            /\ \A k \in 1..Len(ms) :
                  \A key \in {"start", "end"} :
                     \E i \in 1..Len(records[k]) : records[k][i].key = key

\* C7 as stated: the plain-text rendering too shows the start and the end
\* position, each coordinate plus one.
C7_BothShowEnd ==
    /\ PointsKept
    /\ SerializedPoints
    /\ rendered.tag = "display" =>
          LET ms == result.value.matches
          IN  /\ Len(rendered.lines) = Len(ms)
              /\ \A k \in 1..Len(ms) :
                    LET numbers == NumbersOf(rendered.lines[k])
                    IN  /\ Len(numbers) >= 4
                        /\ numbers[1] = ms[k].start.row + 1
                        /\ numbers[2] = ms[k].start.column + 1
                        /\ \E i, j \in 3..Len(numbers) :
                              /\ i < j
                              /\ numbers[i] = ms[k].end.row + 1
                              /\ numbers[j] = ms[k].end.column + 1

\* C7 amended: the plain-text rendering shows the start position only (row
\* and column, each plus one); the structured rendering shows start and end,
\* each coordinate plus one; the stored points stay 0-based.
C7_Positions ==
    /\ PointsKept
    /\ SerializedPoints
    /\ rendered.tag = "display" =>
          LET ms == result.value.matches
          IN  /\ Len(rendered.lines) = Len(ms)
              /\ \A k \in 1..Len(ms) :
                    NumbersOf(rendered.lines[k])
                        = << ms[k].start.row + 1, ms[k].start.column + 1 >>

\* A structured rendering of a match on the second line of the source.
C7_Witness ==
    /\ rendered.tag = "serialize"
    /\ rendered.out.ok
    /\ \E k \in 1..Len(result.value.matches) :
          /\ result.value.matches[k].start = [row |-> 1, column |-> 0]
          /\ result.value.matches[k].end = [row |-> 1, column |-> 1]

\* A later call with the arguments of the remembered call.
Repeated ==
    /\ Len(remembered) = 1
    /\ call.op = "extract_from_text"
    /\ call.path = remembered[1].call.path
    /\ call.source = remembered[1].call.source

\* What a call may change: the target grammar of the parser, nothing of the
\* Extractor.
Frame ==
    (call.op = "idle" /\ call'.op # "idle") =>
        /\ extractor' = extractor
        /\ parser'.timeout = parser.timeout
        /\ parser'.language \in {parser.language, extractor.ts_language.name}

C9_Classifier ==
    /\ extractor.captures = extractor.query.capture_names
    /\ extractor.ignores \subseteq 0..(Len(extractor.captures) - 1)
    /\ \A i \in 0..(Len(extractor.captures) - 1) :
          i \in extractor.ignores <=> UnderscoreFirst(extractor.captures[i + 1])

\* After a failed call, with one name of each sort.
C9_Witness ==
    /\ Returned
    /\ result.tag = "Err"
    /\ extractor.captures = << <<"v", "_">>, <<"_", "h">> >>
    /\ extractor.ignores = {1}

\* C10: when every produced capture whose bytes do not decode is a hidden
\* one, the call succeeds with the outcome of the same captures without
\* those.
C10_FilterFirst ==
    LET produced == Produced(call.query_matches)
    IN  (call.parsed /\ \A k \in 1..Len(produced) :
                           ~Decodable(produced[k]) => Hidden(produced[k]))
            => /\ result.tag # "Err"
               /\ result = OutcomeOf(SelectSeq(produced,
                              LAMBDA c : Decodable(c) /\ ~Hidden(c)))

\* A hidden capture over undecodable bytes next to a visible one.
C10_Witness ==
    /\ call.parsed
    /\ Len(Produced(call.query_matches)) = 2
    /\ Hidden(Produced(call.query_matches)[1])
    /\ ~Decodable(Produced(call.query_matches)[1])
    /\ ~Hidden(Produced(call.query_matches)[2])
    /\ result.tag = "Some"
    /\ Len(result.value.matches) = 1

====
